---------------------------- MODULE Spec2Model ----------------------------
(***************************************************************************)
(* Payment lifecycle (models/payment.js, the /payments handlers) and the   *)
(* in-memory RateLimiter (lib/auth.js) of the PI TRACE backend.             *)
(*                                                                         *)
(* The specifications share the clock:                                     *)
(*   Spec        the payment store and the requests in flight against it;  *)
(*   SpecUpdate  the same under creations and status updates alone;        *)
(*   SpecFault   the same with saves the store may fail;                   *)
(*   SpecFailures  the status updates of a payment that has failed once;   *)
(*   SpecLive    the create-payment handler under a store that answers;    *)
(*   SpecRetry   the same with retries of failed payments;                 *)
(*   SpecRL      one RateLimiter instance and the check() calls made on it;*)
(*   SpecGate    the handler of /payments behind its limiter;              *)
(*   SpecAuth    the handler of /auth behind its limiter;                  *)
(*   SpecStats   the store under getStats and its three queries;           *)
(*   SpecProducts  the handler of /products and the products it owns.      *)
(*                                                                         *)
(* A handler is split at its awaits on the store: what runs between two    *)
(* awaits is one atomic step (one JavaScript turn plus the store operation *)
(* it ends in).                                                            *)
(***************************************************************************)
EXTENDS Integers, Sequences, FiniteSets, TLC

VARIABLES
    now,        \* Date.now(), in clock units of 15 minutes (Spec) / ticks (SpecRL)
    store,      \* the payments collection, in insertion (natural) order
    req,        \* the requests in flight: one record per slot
    issued,     \* how many requests the server has received
    reply,      \* the answer sent last: request kind, HTTP status, error or message
    requests,   \* RateLimiter.requests: the Map key -> timestamp
    checkLog,   \* the check() calls made so far: identity, time, returned value
    users,      \* the users collection: uid -> lastLogin, NoTime for no such user
    stats,      \* the getStats call in progress or returned last: its three query results
    products    \* the products collection: id -> owner, price, hash; no owner, no product

vars == <<now, store, req, issued, reply, requests, checkLog, users, stats, products>>

-----------------------------------------------------------------------------
(* Bounds of the model *)

MaxClock == 1       \* the clock stops here
MaxDocs == 2        \* documents the collection may hold
MaxSlots == 2       \* requests in flight at once
MaxIssued == 3      \* requests the server receives in one behaviour
MaxCalls == 6       \* check() calls made on the limiter

Slots == 1..MaxSlots

None == "none"      \* undefined / absent (strings)
NoTime == 0 - 1     \* undefined / absent (dates and numbers)

-----------------------------------------------------------------------------
(* Inputs *)

PaymentIds == {"PAY_1", "PAY_2"}          \* what the id generator may produce
IdentifierPool == {"pi_1"}                \* Pi Network payment identifiers
AuthUids == {"u1", "u2"}         \* uids presented to /auth
Uids == {"u1"}
Amounts == {-5, 0, 10}                    \* 0 also stands for a missing amount
PiAmounts == {-5, 10}
RefundAmounts == {0, 4}                   \* 0 also stands for a missing amount
Tokens == {None, "bad", "tok_u1"}         \* Authorization header: absent, invalid, valid
ProductIds == {None, "prod_1", "prod_x"}  \* prod_x resolves to no product
ProductPool == {"prod_1", "prod_2"}       \* the ids products are stored under
NoProduct == [owner |-> None, price |-> 0, hash |-> None]
\* the catalogue the server starts with: one product, owned by u2
InitialProducts ==
    [p \in ProductPool |-> IF p = "prod_1" THEN [owner |-> "u2", price |-> 5, hash |-> "h1"]
                           ELSE NoProduct]
\* the ids Product.findById resolves
KnownProducts == {p \in ProductPool : products[p] # NoProduct}
ServiceTypes == {None, "api_access"}
NoTx == [present |-> FALSE, transactionId |-> None, blockHash |-> None, error |-> None]
TxFull == [present |-> TRUE, transactionId |-> "tx_1", blockHash |-> None, error |-> None]
TxBare == [present |-> TRUE, transactionId |-> None, blockHash |-> "bh_1", error |-> None]
TxError == [present |-> TRUE, transactionId |-> None, blockHash |-> None, error |-> "declined"]
\* the bodies of a status update: status and transactionData ("refunded" and a missing
\* status are two of the values the handler's switch has no case for)
UpdateBodies ==
    ({"approved", "cancelled", "refunded", None} \X {NoTx})
        \cup ({"completed"} \X {NoTx, TxFull, TxBare})
        \cup ({"failed"} \X {NoTx, TxError})

-----------------------------------------------------------------------------
(* The Payment document *)

ExpiryTTL == 1      \* 15 * 60 * 1000 ms, one clock unit
DefaultMaxRetries == 3

NoPiData == [transactionId |-> None, blockHash |-> None]
NoError == [message |-> None, code |-> None, timestamp |-> NoTime]
NoRefund == [amount |-> 0, reason |-> None, processedAt |-> NoTime]

NoDoc == [paymentId |-> None]

\* (mutant) the schema with expiresAt defaulting to the time of construction, the
\* 15 minutes left out
paymentSchemaNoTTL(data, t) ==
    [ paymentId     |-> None,
      identifier    |-> data.identifier,
      uid           |-> data.uid,
      username      |-> data.uid,
      walletAddress |-> None,
      amount        |-> data.amount,
      currency      |-> "PI",
      status        |-> data.status,
      piNetworkData |-> NoPiData,
      product       |-> data.product,
      service       |-> data.service,
      expiresAt     |-> t,
      approvedAt    |-> NoTime,
      completedAt   |-> NoTime,
      cancelledAt   |-> NoTime,
      failedAt      |-> NoTime,
      retryCount    |-> 0,
      maxRetries    |-> DefaultMaxRetries,
      lastError     |-> NoError,
      refund        |-> NoRefund,
      createdAt     |-> NoTime,
      updatedAt     |-> NoTime ]

\* new Payment(paymentData): the schema's fields with their defaults
paymentSchema(data, t) ==
    [ paymentId     |-> None,
      identifier    |-> data.identifier,
      uid           |-> data.uid,
      username      |-> data.uid,
      walletAddress |-> None,
      amount        |-> data.amount,
      currency      |-> "PI",
      status        |-> data.status,
      piNetworkData |-> NoPiData,
      product       |-> data.product,
      service       |-> data.service,
      expiresAt     |-> t + ExpiryTTL,
      approvedAt    |-> NoTime,
      completedAt   |-> NoTime,
      cancelledAt   |-> NoTime,
      failedAt      |-> NoTime,
      retryCount    |-> 0,
      maxRetries    |-> DefaultMaxRetries,
      lastError     |-> NoError,
      refund        |-> NoRefund,
      createdAt     |-> NoTime,
      updatedAt     |-> NoTime ]

Fields == DOMAIN paymentSchema([identifier |-> None, uid |-> None, amount |-> 0,
                                status |-> "pending", product |-> None,
                                service |-> None], 0)

\* Payment.create(paymentData) at time t: the document built, createdAt and updatedAt
\* set (timestamps: true)
newPayment(data, t) == [paymentSchema(data, t) EXCEPT !.createdAt = t, !.updatedAt = t]

\* virtual isExpired: this.expiresAt && new Date() > this.expiresAt
isExpired(doc, t) == doc.expiresAt # NoTime /\ t > doc.expiresAt

\* canRetry(): failed, retries left, not expired
canRetry(doc, t) ==
    /\ doc.status = "failed"
    /\ doc.retryCount < doc.maxRetries
    /\ ~isExpired(doc, t)

\* pre('save') #1: generate paymentId if absent; refresh expiresAt of an expired pending payment
preSaveId(doc, pid, t) ==
    LET d1 == IF doc.paymentId = None THEN [doc EXCEPT !.paymentId = pid] ELSE doc
    IN  IF d1.status = "pending" /\ isExpired(d1, t)
        THEN [d1 EXCEPT !.expiresAt = t + ExpiryTTL]
        ELSE d1

\* pre('save') #2: when status was modified, stamp the status timestamp if unset
preSaveTimestamps(doc, orig, t) ==
    IF doc.status # orig.status
    THEN CASE doc.status = "approved" /\ doc.approvedAt = NoTime -> [doc EXCEPT !.approvedAt = t]
           [] doc.status = "completed" /\ doc.completedAt = NoTime -> [doc EXCEPT !.completedAt = t]
           [] doc.status = "cancelled" /\ doc.cancelledAt = NoTime -> [doc EXCEPT !.cancelledAt = t]
           [] doc.status = "failed" /\ doc.failedAt = NoTime -> [doc EXCEPT !.failedAt = t]
           [] OTHER -> doc
    ELSE doc

\* the paths document.save() writes: those whose value differs from what was loaded
ModifiedPaths(doc, orig) == {f \in Fields : doc[f] # orig[f]}

\* save(), before the write: the two pre('save') hooks, then updatedAt (timestamps: true)
\* when something was modified
savedDoc(doc, orig, t) ==
    LET d == preSaveTimestamps(preSaveId(doc, doc.paymentId, t), orig, t)
    IN  IF ModifiedPaths(d, orig) = {} THEN d ELSE [d EXCEPT !.updatedAt = t]

\* the update save() sends: $set of the modified paths, applied to the document as it
\* is in the collection at that moment; the filter is the _id alone, no version check
ApplyDelta(stored, doc, orig) ==
    [f \in Fields |-> IF f \in ModifiedPaths(doc, orig) THEN doc[f] ELSE stored[f]]

\* markAsCompleted(transactionData), up to its save()
markAsCompleted(doc, tx, t) ==
    LET d1 == [doc EXCEPT !.status = "completed", !.completedAt = t]
    IN  IF tx.transactionId # None
        THEN [d1 EXCEPT !.piNetworkData =
                 [transactionId |-> tx.transactionId,
                  blockHash |-> IF tx.blockHash # None THEN tx.blockHash
                                ELSE doc.piNetworkData.blockHash]]
        ELSE d1

\* markAsFailed(error), up to its save(): error.code || 'UNKNOWN_ERROR'
markAsFailed(doc, error, t) ==
    [doc EXCEPT !.status = "failed",
                !.failedAt = t,
                !.lastError = [message |-> error.message,
                               code |-> IF error.code # None THEN error.code
                                        ELSE "UNKNOWN_ERROR",
                               timestamp |-> t],
                !.retryCount = doc.retryCount + 1]

\* new Error(transactionData?.error || 'Payment failed'): a message and no code
newError(tx) ==
    [message |-> IF tx.present /\ tx.error # None THEN tx.error ELSE "Payment failed",
     code |-> None]

\* (mutant) processRefund writing the refunded amount over the payment's amount
refundDocOverAmount(doc, amount, reason, t) ==
    [doc EXCEPT !.status = "refunded",
                !.amount = IF amount # 0 THEN amount ELSE doc.amount,
                !.refund = [amount |-> IF amount # 0 THEN amount ELSE doc.amount,
                            reason |-> reason,
                            processedAt |-> t]]

\* processRefund(amount, reason), up to its save()
refundDoc(doc, amount, reason, t) ==
    [doc EXCEPT !.status = "refunded",
                !.refund = [amount |-> IF amount # 0 THEN amount ELSE doc.amount,
                            reason |-> reason,
                            processedAt |-> t]]

-----------------------------------------------------------------------------
(* The collection *)

\* findOne({ $or: [{ paymentId }, { identifier }] }): the first document, in natural
\* order, one of whose two fields equals the value given (an absent identifier in the
\* filter compares equal to an absent identifier in the document)
Matches(doc, paymentId, identifier) ==
    doc.paymentId = paymentId \/ doc.identifier = identifier

findOne(paymentId, identifier) ==
    LET hits == {i \in DOMAIN store : Matches(store[i], paymentId, identifier)}
    IN  IF hits = {} THEN 0
        ELSE CHOOSE i \in hits : \A j \in hits : i <= j

\* findExpiredPendingPayments(): find({ status: 'pending', expiresAt: { $lt: new Date() } })
findExpiredPendingPayments(t) ==
    {i \in DOMAIN store : store[i].status = "pending" /\ store[i].expiresAt < t}

\* (mutant) the unique index on paymentId alone, identifier not indexed
DuplicateKeyIdOnly(doc) ==
    \E i \in DOMAIN store : store[i].paymentId = doc.paymentId

\* unique index on paymentId; unique sparse index on identifier
DuplicateKey(doc) ==
    \E i \in DOMAIN store :
        \/ store[i].paymentId = doc.paymentId
        \/ doc.identifier # None /\ store[i].identifier = doc.identifier

\* schema validation on save: required fields, amount min 0
SchemaValid(doc) ==
    /\ doc.uid # None
    /\ doc.amount >= 0

-----------------------------------------------------------------------------
(* Requests in flight *)

IdleReq ==
    [ pc |-> "idle", kind |-> None, target |-> None, tx |-> NoTx, idx |-> 0,
      doc |-> NoDoc, orig |-> NoDoc, before |-> NoDoc ]

\* getStats(uid) before its first query; atStart is the number of payments stored when
\* the call began
NoStats == [pc |-> "idle", uid |-> None, atStart |-> 0, byStatus |-> {}, total |-> 0,
            totalAmount |-> 0]

NoReply == [kind |-> None, code |-> 0, error |-> None]

\* (a slot's before is the payment as findOne returned it to the request, kept for the
\* properties; doc and orig follow the document in memory over its saves)

\* a slot holds a request until it has answered, or hangs
Free(r) == req[r].pc \in {"idle", "hung"}

\* a new request takes the first free slot
Accept(r) ==
    /\ issued < MaxIssued
    /\ Free(r)
    /\ \A r2 \in Slots : r2 < r => ~Free(r2)
    /\ issued' = issued + 1

\* res.status(code).json(...), or the promise of a model call settling
Respond(kind, code, err) == reply' = [kind |-> kind, code |-> code, error |-> err]

\* generateToken(user): the payload signed into the token
generateToken(uid) ==
    [uid |-> uid, username |-> uid, loginType |-> "pi", walletAddress |-> None]

\* verifyToken(token) of a token that verifies: the payload generateToken signed
verifyToken(token) == IF token = "tok_u2" THEN generateToken("u2") ELSE generateToken("u1")

\* (mutant) authenticateToken without the verification: any token present is accepted
authenticateTokenUnverified(token) ==
    IF token = None THEN [status |-> 401, uid |-> None]
    ELSE [status |-> 0, uid |-> verifyToken(token).uid]

\* authenticateToken: 401 without a token, 403 with one that does not verify; next() is
\* called only on success
authenticateToken(token) ==
    IF token = None THEN [status |-> 401, uid |-> None]
    ELSE IF token = "bad" THEN [status |-> 403, uid |-> None]
    ELSE [status |-> 0, uid |-> verifyToken(token).uid]

\* (mutant) the amount check with amount < 0 for amount <= 0: a zero amount passes
InvalidAmountStrict(amount) == amount < 0

\* !amount || amount <= 0
InvalidAmount(amount) == amount <= 0

\* (mutant) the subject with the service added whether or not a product was found
subjectBoth(productId, serviceType) == [product |-> productId, service |-> serviceType]

\* if (product) paymentData.product = ... else if (serviceType) paymentData.service = ...
subject(productId, serviceType) ==
    [product |-> productId, service |-> IF productId # None THEN None ELSE serviceType]

\* handleCreatePayment, up to the call of Payment.create
handleCreatePayment(r, token, amount, productId, serviceType) ==
    /\ Accept(r)
    /\ LET auth == authenticateToken(token)
           data == [ identifier |-> None, uid |-> auth.uid, amount |-> amount,
                     status |-> "pending",
                     product |-> subject(productId, serviceType).product,
                     service |-> subject(productId, serviceType).service ]
           new == [IdleReq EXCEPT !.kind = "create"]
       IN  IF auth.status # 0
           THEN /\ req' = [req EXCEPT ![r] = [new EXCEPT !.pc = "hung"]]
                /\ Respond("create", auth.status, None)
           ELSE IF InvalidAmount(amount)
           THEN /\ req' = [req EXCEPT ![r] = IdleReq]
                /\ Respond("create", 400, None)
           ELSE IF productId # None /\ productId \notin KnownProducts
           THEN /\ req' = [req EXCEPT ![r] = IdleReq]
                /\ Respond("create", 404, None)
           ELSE /\ req' = [req EXCEPT ![r] =
                        [new EXCEPT !.pc = "creating", !.doc = newPayment(data, now)]]
                /\ reply' = reply
    /\ UNCHANGED <<now, store, users, stats, products>>

\* createFromPiPayment(piPayment, user, product), up to the call of this.create
createFromPiPayment(r, identifier, amount, uid, productId) ==
    /\ Accept(r)
    /\ LET data == [ identifier |-> identifier, uid |-> uid, amount |-> amount,
                     status |-> "pending", product |-> productId, service |-> None ]
       IN  req' = [req EXCEPT ![r] =
              [IdleReq EXCEPT !.kind = "pi", !.pc = "creating",
                              !.doc = newPayment(data, now)]]
    /\ UNCHANGED <<now, store, reply, requests, checkLog, users, stats, products>>

\* Payment.create: validation, the pre('save') hooks (run when create is called, with
\* the id the generator draws), the insert under the unique indexes; then the handler's
\* answer (201, or 500 from its catch) or, for createFromPiPayment, the promise settling
CreateInsert(r, pid) ==
    /\ req[r].pc = "creating"
    /\ LET doc == preSaveId(req[r].doc, pid, req[r].doc.createdAt)
           http == req[r].kind = "create"
       IN  /\ req' = [req EXCEPT ![r] = IdleReq]
           /\ IF ~SchemaValid(doc)
              THEN /\ Respond(req[r].kind, IF http THEN 500 ELSE 0, "ValidationError")
                   /\ store' = store
              ELSE IF DuplicateKey(doc)
              THEN /\ Respond(req[r].kind, IF http THEN 500 ELSE 0, "E11000")
                   /\ store' = store
              ELSE /\ Len(store) < MaxDocs
                   /\ store' = Append(store, doc)
                   /\ Respond(req[r].kind, IF http THEN 201 ELSE 0, None)
    /\ UNCHANGED <<now, issued, requests, checkLog, users, stats, products>>

\* handleUpdatePayment, up to the answer of findOne
UpdateFind(r, paymentId, identifier, status, tx) ==
    /\ Accept(r)
    /\ LET new == [IdleReq EXCEPT !.kind = "update", !.target = status, !.tx = tx]
           i == findOne(paymentId, identifier)
       IN  IF paymentId = None
           THEN /\ req' = [req EXCEPT ![r] = IdleReq]
                /\ Respond("update", 400, None)
           ELSE IF i = 0
           THEN /\ req' = [req EXCEPT ![r] = IdleReq]
                /\ Respond("update", 404, None)
           ELSE /\ req' = [req EXCEPT ![r] =
                        [new EXCEPT !.pc = "found", !.idx = i,
                                    !.doc = store[i], !.orig = store[i],
                                    !.before = store[i]]]
                /\ reply' = reply
    /\ UNCHANGED <<now, store, users, stats, products>>

\* the switch of handleUpdatePayment applied to the document in memory
SwitchStatus(doc, status, tx, t) ==
    CASE status = "approved" -> [doc EXCEPT !.status = "approved", !.approvedAt = t]
      [] status = "completed" ->
            IF tx.present THEN markAsCompleted(doc, tx, t)
            ELSE [doc EXCEPT !.status = "completed", !.completedAt = t]
      [] status = "cancelled" -> [doc EXCEPT !.status = "cancelled", !.cancelledAt = t]
      [] status = "failed" ->
            markAsFailed(doc, newError(tx), t)
      [] OTHER -> doc

\* (mutant) a switch with a case for refunded as well
AcceptedWithRefunded == {"approved", "completed", "cancelled", "failed", "refunded"}

\* the targets the switch accepts
Accepted == {"approved", "completed", "cancelled", "failed"}

\* the targets whose case awaits a save() of its own (markAsCompleted, markAsFailed)
SavesTwice(status, tx) == (status = "completed" /\ tx.present) \/ status = "failed"

\* handleUpdatePayment from the switch to the first save(): for approved, cancelled
\* and completed without transactionData that is the handler's save() and the answer
UpdateApply(r) ==
    /\ req[r].pc = "found"
    /\ LET q == req[r]
           doc == savedDoc(SwitchStatus(q.doc, q.target, q.tx, now), q.orig, now)
       IN  IF q.target \notin Accepted
           THEN /\ req' = [req EXCEPT ![r] = IdleReq]
                /\ Respond("update", 400, "Invalid status update")
                /\ store' = store
           ELSE /\ store' = [store EXCEPT ![q.idx] = ApplyDelta(store[q.idx], doc, q.orig)]
                /\ IF SavesTwice(q.target, q.tx)
                   THEN /\ req' = [req EXCEPT ![r] =
                                [q EXCEPT !.pc = "marked", !.doc = doc, !.orig = doc]]
                        /\ reply' = reply
                   ELSE /\ req' = [req EXCEPT ![r] = IdleReq]
                        /\ Respond("update", 200, None)
    /\ UNCHANGED <<now, issued, requests, checkLog, users, stats, products>>

\* handleUpdatePayment after markAsCompleted / markAsFailed: the handler's own save()
\* and the answer
UpdateSave(r) ==
    /\ req[r].pc = "marked"
    /\ LET q == req[r]
           doc == savedDoc(q.doc, q.orig, now)
       IN  /\ store' = [store EXCEPT ![q.idx] = ApplyDelta(store[q.idx], doc, q.orig)]
           /\ req' = [req EXCEPT ![r] = IdleReq]
           /\ Respond("update", 200, None)
    /\ UNCHANGED <<now, issued, requests, checkLog, users, stats, products>>

\* the first save() of a status update rejecting (the store fails the write): nothing
\* is written and the handler's catch answers 500
UpdateApplyRejects(r) ==
    /\ req[r].pc = "found"
    /\ req[r].target \in Accepted
    /\ req' = [req EXCEPT ![r] = IdleReq]
    /\ Respond("update", 500, "StoreError")
    /\ UNCHANGED <<now, store, issued, requests, checkLog, users, stats, products>>

\* the handler's own save() rejecting after markAsCompleted / markAsFailed has saved:
\* the catch answers 500
UpdateSaveRejects(r) ==
    /\ req[r].pc = "marked"
    /\ req' = [req EXCEPT ![r] = IdleReq]
    /\ Respond("update", 500, "StoreError")
    /\ UNCHANGED <<now, store, issued, requests, checkLog, users, stats, products>>

\* processRefund(amount, reason) on the stored payment i, with its save()
processRefund(i, amount) ==
    /\ i \in DOMAIN store
    /\ issued < MaxIssued
    /\ issued' = issued + 1
    /\ LET orig == store[i]
           doc == savedDoc(refundDoc(orig, amount, "requested", now), orig, now)
       IN  /\ store' = [store EXCEPT ![i] = ApplyDelta(store[i], doc, orig)]
           /\ Respond("refund", 0, None)
    /\ UNCHANGED <<now, req, requests, checkLog, users, stats, products>>

Tick ==
    /\ now < MaxClock
    /\ now' = now + 1
    /\ UNCHANGED <<store, req, issued, reply, requests, checkLog, users, stats, products>>

-----------------------------------------------------------------------------
(* Specification of the payment store *)

Init ==
    /\ now = 0
    /\ store = <<>>
    /\ req = [r \in Slots |-> IdleReq]
    /\ issued = 0
    /\ reply = NoReply
    /\ requests = {}
    /\ checkLog = <<>>
    /\ users = [uid \in AuthUids |-> NoTime]
    /\ stats = NoStats
    /\ products = InitialProducts

Create ==
    \E r \in Slots, token \in Tokens, amount \in Amounts,
       productId \in ProductIds, serviceType \in ServiceTypes :
        /\ handleCreatePayment(r, token, amount, productId, serviceType)
        /\ UNCHANGED <<requests, checkLog>>

CreatePi ==
    \E r \in Slots, identifier \in IdentifierPool \cup {None},
       amount \in PiAmounts, uid \in Uids :
        createFromPiPayment(r, identifier, amount, uid, None)

Insert == \E r \in Slots, pid \in PaymentIds : CreateInsert(r, pid)

Find ==
    \E r \in Slots, paymentId \in PaymentIds \cup {None},
       identifier \in IdentifierPool \cup {None}, body \in UpdateBodies :
        /\ UpdateFind(r, paymentId, identifier, body[1], body[2])
        /\ UNCHANGED <<requests, checkLog>>

Apply == \E r \in Slots : UpdateApply(r)

Save == \E r \in Slots : UpdateSave(r)

Refund == \E i \in 1..MaxDocs, amount \in RefundAmounts : processRefund(i, amount)

Next == Create \/ CreatePi \/ Insert \/ Find \/ Apply \/ Save \/ Refund \/ Tick

Spec == Init /\ [][Next]_vars

\* the store under creations and status updates alone (POST and PUT on /payments)
NextUpdate == Create \/ CreatePi \/ Insert \/ Find \/ Apply \/ Save \/ Tick

SpecUpdate == Init /\ [][NextUpdate]_vars

ApplyRejects == \E r \in Slots : UpdateApplyRejects(r)

SaveRejects == \E r \in Slots : UpdateSaveRejects(r)

\* the status updates with a store that may fail a save()
NextFault == Create \/ Insert \/ Find \/ Apply \/ Save \/ ApplyRejects \/ SaveRejects

SpecFault == Init /\ [][NextFault]_vars

\* the store holding one payment that was created and then updated to failed once;
\* issued counts the requests received from then on
InitFailed ==
    LET data == [ identifier |-> None, uid |-> "u1", amount |-> 10, status |-> "pending",
                  product |-> None, service |-> None ]
        created == preSaveId(newPayment(data, 0), "PAY_1", 0)
        failed == savedDoc(markAsFailed(created, newError(NoTx), 0), created, 0)
    IN  /\ now = 0
        /\ store = <<failed>>
        /\ req = [r \in Slots |-> IdleReq]
        /\ issued = 0
        /\ reply = [kind |-> "update", code |-> 200, error |-> None]
        /\ requests = {}
        /\ checkLog = <<>>
        /\ users = [uid \in AuthUids |-> NoTime]
        /\ stats = NoStats
        /\ products = InitialProducts

\* the status updates that follow
NextFailures == Find \/ Apply \/ Save

SpecFailures == InitFailed /\ [][NextFailures]_vars

\* the create-payment handler alone; the store answers every Payment.create it is sent
\* (weak fairness of Insert), while nothing obliges a client to send a request
NextLive == Create \/ Insert

SpecLive == Init /\ [][NextLive]_vars /\ WF_vars(Insert)

\* $match: matchStage
Matching(uid) == {i \in DOMAIN store : uid = None \/ store[i].uid = uid}

\* $sum: '$amount' over the payments I
RECURSIVE SumAmount(_)
SumAmount(I) ==
    IF I = {} THEN 0
    ELSE LET i == CHOOSE j \in I : TRUE IN store[i].amount + SumAmount(I \ {i})

\* $group by status: one row per status present, with count and totalAmount
groupByStatus(uid) ==
    { [ _id |-> st,
        count |-> Cardinality({i \in Matching(uid) : store[i].status = st}),
        totalAmount |-> SumAmount({i \in Matching(uid) : store[i].status = st}) ] :
      st \in {store[i].status : i \in Matching(uid)} }

\* getStats: the aggregate grouping by status
getStatsGroup(uid) ==
    /\ stats.pc \in {"idle", "done"}
    /\ issued < MaxIssued
    /\ issued' = issued + 1
    /\ stats' = [NoStats EXCEPT !.pc = "grouped", !.uid = uid, !.atStart = Len(store),
                                !.byStatus = groupByStatus(uid)]
    /\ UNCHANGED <<now, store, req, reply, requests, checkLog, users, products>>

\* getStats: countDocuments
getStatsCount ==
    /\ stats.pc = "grouped"
    /\ stats' = [stats EXCEPT !.pc = "counted", !.total = Cardinality(Matching(stats.uid))]
    /\ UNCHANGED <<now, store, req, issued, reply, requests, checkLog, users, products>>

\* getStats: the aggregate summing every amount, and the return
getStatsTotal ==
    /\ stats.pc = "counted"
    /\ stats' = [stats EXCEPT !.pc = "done", !.totalAmount = SumAmount(Matching(stats.uid))]
    /\ Respond("stats", 0, None)
    /\ UNCHANGED <<now, store, req, issued, requests, checkLog, users, products>>

Group == \E uid \in Uids \cup {None} : getStatsGroup(uid)

\* the store under creations and status updates, with getStats calls alongside
NextStats ==
    Create \/ Insert \/ Find \/ Apply \/ Save \/ Group \/ getStatsCount \/ getStatsTotal

SpecStats == Init /\ [][NextStats]_vars

\* Retry(payment_id) on the stored payment i, which no handler of the repository
\* offers: the payment is read, canRetry() decides, status is set back to pending and
\* the document saved, the pre('save') hooks of the model doing the rest
retry(i) ==
    /\ i \in DOMAIN store
    /\ issued < MaxIssued
    /\ issued' = issued + 1
    /\ LET orig == store[i]
           doc == savedDoc([orig EXCEPT !.status = "pending"], orig, now)
       IN  IF canRetry(orig, now)
           THEN /\ store' = [store EXCEPT ![i] = ApplyDelta(store[i], doc, orig)]
                /\ Respond("retry", 0, None)
           ELSE /\ store' = store
                /\ Respond("retry", 0, IF isExpired(orig, now) THEN "ExpiredError"
                                       ELSE "RetryExhaustedError")
    /\ UNCHANGED <<now, req, requests, checkLog, users, stats, products>>

Retry == \E i \in 1..MaxDocs : retry(i)

\* the store under creations, status updates and retries
NextRetry == Create \/ CreatePi \/ Insert \/ Find \/ Apply \/ Save \/ Retry \/ Tick

SpecRetry == Init /\ [][NextRetry]_vars

-----------------------------------------------------------------------------
(* The RateLimiter of lib/auth.js *)

maxRequests == 3    \* new RateLimiter(maxRequests, windowMs): the budget of the instance
windowMs == 3
MaxTime == 4        \* the limiter's clock stops here

\* caller identities (client addresses), as strings of characters; "1" is a prefix of "10"
Identities == { <<"1">>, <<"1", "0">>, <<"2">> }

Digit(n) == CASE n = 0 -> "0" [] n = 1 -> "1" [] n = 2 -> "2" [] n = 3 -> "3"
              [] n = 4 -> "4" [] n = 5 -> "5" [] n = 6 -> "6" [] n = 7 -> "7"
              [] n = 8 -> "8" [] n = 9 -> "9"

\* the decimal digits of a timestamp, as a template literal prints it
RECURSIVE Digits(_)
Digits(n) == IF n < 10 THEN <<Digit(n)>> ELSE Append(Digits(n \div 10), Digit(n % 10))

\* `${identifier}_${now}`
Key(identifier, t) == identifier \o <<"_">> \o Digits(t)

\* key.startsWith(identifier)
StartsWith(key, identifier) ==
    /\ Len(identifier) <= Len(key)
    /\ SubSeq(key, 1, Len(identifier)) = identifier

\* (mutant) a limiter whose loop deletes nothing
CleanOldNothing(map, windowStart) == map

\* the loop deleting the entries older than the window
CleanOld(map, windowStart) == {e \in map : ~(e.timestamp < windowStart)}

\* the timestamps of the entries check() counts against identifier
userRequests(map, identifier, windowStart) ==
    {e \in map : StartsWith(e.key, identifier) /\ e.timestamp > windowStart}

\* Map.set(key, value): one entry per key
MapSet(map, key, value) ==
    {e \in map : e.key # key} \cup {[key |-> key, timestamp |-> value]}

\* what check(identifier) returns at the current time
checkResult(identifier) ==
    LET windowStart == now - windowMs
    IN  Cardinality(userRequests(CleanOld(requests, windowStart), identifier, windowStart))
            < maxRequests

\* what a call of check(identifier) does to the limiter at the current time
checkCall(identifier) ==
    LET windowStart == now - windowMs
        cleaned == CleanOld(requests, windowStart)
        ok == checkResult(identifier)
    IN  /\ requests' = IF ok THEN MapSet(cleaned, Key(identifier, now), now)
                       ELSE cleaned
        /\ checkLog' = Append(checkLog, [id |-> identifier, t |-> now, ok |-> ok])

\* RateLimiter.check(identifier) called on its own
check(identifier) ==
    /\ Len(checkLog) < MaxCalls
    /\ checkCall(identifier)
    /\ UNCHANGED <<now, store, req, issued, reply, users, stats, products>>

RLTick ==
    /\ now < MaxTime
    /\ now' = now + 1
    /\ UNCHANGED <<store, req, issued, reply, requests, checkLog, users, stats, products>>

Check == \E identifier \in Identities : check(identifier)

NextRL == Check \/ RLTick

SpecRL == Init /\ [][NextRL]_vars

-----------------------------------------------------------------------------
(* The handler of /payments (api/payments.js) behind apiRateLimiter, and the  *)
(* handler of /auth (api/auth.js) behind authRateLimiter.  Each specification *)
(* holds one limiter instance in requests, with the budget of maxRequests    *)
(* calls per windowMs.                                                       *)

Methods == {"OPTIONS", "GET", "POST", "PUT", "DELETE"}

\* x-forwarded-for || remoteAddress
ClientIPs == { <<"1">>, <<"2">> }

\* request bodies of POST and PUT /payments, and of POST /auth
PostBodies ==
    [token : Tokens, amount : Amounts, productId : ProductIds, serviceType : ServiceTypes]
PutBodies ==
    [paymentId : PaymentIds \cup {None}, identifier : {None}, update : UpdateBodies]
AuthBodies == [uid : AuthUids \cup {None}, loginType : {"pi", "guest"}, accessToken : BOOLEAN]
NoBody == [uid |-> None]

\* the handler answers and returns
Answer(r, kind, code) ==
    /\ Accept(r)
    /\ req' = [req EXCEPT ![r] = IdleReq]
    /\ Respond(kind, code, None)

\* (mutant) the handler ignoring what check() returned
tooManyRequestsIgnored(clientIP) == FALSE

\* !apiRateLimiter.check(clientIP), !authRateLimiter.check(clientIP)
tooManyRequests(clientIP) == ~checkResult(clientIP)

\* handleGetPayments: reads of the store, then 200
handleGetPayments(r) ==
    /\ Answer(r, "get", 200)
    /\ UNCHANGED <<now, store, users, stats, products>>

\* (mutant) a DELETE case that removes the payment stored last
methodDeletes(r) ==
    /\ Answer(r, "payments", IF store = <<>> THEN 404 ELSE 200)
    /\ store' = IF store = <<>> THEN store ELSE SubSeq(store, 1, Len(store) - 1)
    /\ UNCHANGED <<now, users, stats, products>>

\* the switch's default: 405 for every method but GET, POST and PUT
methodNotAllowed(r) ==
    /\ Answer(r, "payments", 405)
    /\ UNCHANGED <<now, store, users, stats, products>>

\* handler of /payments, up to the first await on the store of the function it
\* dispatches to
handler(r, method, clientIP, body) ==
    /\ Accept(r)
    /\ IF method = "OPTIONS"
       THEN /\ Answer(r, "payments", 200)
            /\ UNCHANGED <<now, store, requests, checkLog, users, stats, products>>
       ELSE /\ checkCall(clientIP)
            /\ IF tooManyRequests(clientIP)
               THEN /\ Answer(r, "payments", 429)
                    /\ UNCHANGED <<now, store, users, stats, products>>
               ELSE CASE method = "POST" ->
                           handleCreatePayment(r, body.token, body.amount,
                                               body.productId, body.serviceType)
                      [] method = "GET" -> handleGetPayments(r)
                      [] method = "PUT" ->
                           UpdateFind(r, body.paymentId, body.identifier,
                                      body.update[1], body.update[2])
                      [] OTHER -> methodNotAllowed(r)

\* handler of /auth, up to the answer of User.findOne in POST
authHandler(r, method, clientIP, body) ==
    /\ Accept(r)
    /\ checkCall(clientIP)
    /\ UNCHANGED <<now, store, users, stats, products>>
    /\ IF tooManyRequests(clientIP)
       THEN Answer(r, "auth", 429)
       ELSE CASE method = "POST" ->
                   IF body.uid = None \/ (body.loginType = "pi" /\ ~body.accessToken)
                   THEN Answer(r, "auth", 400)
                   ELSE /\ Accept(r)
                        /\ req' = [req EXCEPT ![r] =
                                [IdleReq EXCEPT !.kind = "auth", !.pc = "login",
                                                !.target = body.uid,
                                                !.idx = IF users[body.uid] = NoTime
                                                        THEN 0 ELSE 1]]
                        /\ reply' = reply
              [] method = "GET" ->
                   IF body.uid = None THEN Answer(r, "auth", 400)
                   ELSE IF users[body.uid] = NoTime THEN Answer(r, "auth", 404)
                   ELSE Answer(r, "auth", 200)
              [] OTHER -> Answer(r, "auth", 405)

\* POST /auth after User.findOne: User.create under the unique index on uid, or
\* user.save() with the new lastLogin; then the answer
authLogin(r) ==
    /\ req[r].pc = "login"
    /\ LET uid == req[r].target
       IN  IF req[r].idx = 0 /\ users[uid] # NoTime
           THEN /\ users' = users
                /\ Respond("auth", 500, "E11000")
           ELSE /\ users' = [users EXCEPT ![uid] = now]
                /\ Respond("auth", 200, None)
    /\ req' = [req EXCEPT ![r] = IdleReq]
    /\ UNCHANGED <<now, store, issued, requests, checkLog, stats, products>>

\* the limiter after three admitted GET requests of client "1", one per tick
GateTime == 3
UsedBudget ==
    { [key |-> Key(<<"1">>, t), timestamp |-> t] : t \in (GateTime - maxRequests + 1)..GateTime }
UsedLog ==
    [n \in 1..maxRequests |-> [id |-> <<"1">>, t |-> GateTime - maxRequests + n, ok |-> TRUE]]

InitGate ==
    /\ now = GateTime
    /\ store = <<>>
    /\ req = [r \in Slots |-> IdleReq]
    /\ issued = 0
    /\ reply = [kind |-> "get", code |-> 200, error |-> None]
    /\ requests = UsedBudget
    /\ checkLog = UsedLog
    /\ users = [uid \in AuthUids |-> NoTime]
    /\ stats = NoStats
    /\ products = InitialProducts

InitAuth ==
    /\ now = GateTime
    /\ store = <<>>
    /\ req = [r \in Slots |-> IdleReq]
    /\ issued = 0
    /\ reply = [kind |-> "auth", code |-> 404, error |-> None]
    /\ requests = UsedBudget
    /\ checkLog = UsedLog
    /\ users = [uid \in AuthUids |-> NoTime]
    /\ stats = NoStats
    /\ products = InitialProducts

Bodies(method) ==
    CASE method = "POST" -> PostBodies
      [] method = "PUT" -> PutBodies
      [] OTHER -> {NoBody}

Payments ==
    \E r \in Slots, method \in Methods, clientIP \in ClientIPs :
        \E body \in Bodies(method) : handler(r, method, clientIP, body)

Auth ==
    \E r \in Slots, method \in Methods, clientIP \in ClientIPs :
        \E body \in (IF method = "POST" THEN AuthBodies
                      ELSE [uid : AuthUids \cup {None}]) :
            authHandler(r, method, clientIP, body)

Login == \E r \in Slots : authLogin(r)

-----------------------------------------------------------------------------
(* The handler of /products (api/products.js), behind the same apiRateLimiter *)

ProductTokens == Tokens \cup {"tok_u2"}

\* request bodies of /products: POST (a product to create), PUT and DELETE (id, the
\* fields to set), GET (query)
ProductPostBodies == [valid : BOOLEAN, price : {7}, hash : {None, "h1"}]
ProductPutBodies == [id : ProductPool, price : {7}, owner : {None, "u1"}]
ProductBodies(method) ==
    CASE method = "POST" -> ProductPostBodies
      [] method \in {"PUT", "DELETE"} -> ProductPutBodies
      [] OTHER -> [id : ProductPool \cup {None}]

\* user.role of a decoded token
Role(user) == IF "role" \in DOMAIN user THEN user.role ELSE None

\* (mutant) hasPermission without the comparison of uids
hasPermissionAnyUser(user, resourceOwnerId) == user.uid # None /\ resourceOwnerId # None

\* hasPermission(user, resourceOwnerId)
hasPermission(user, resourceOwnerId) ==
    IF user.uid = None \/ resourceOwnerId = None THEN FALSE
    ELSE IF user.uid = resourceOwnerId THEN TRUE
    ELSE IF Role(user) = "admin" THEN TRUE
    ELSE FALSE

\* what the handler of /products decides for an admitted request before it writes: the
\* status it answers with, 0 when the request goes on to its write; hung when the
\* answer came from authenticateToken, after which the handler never resumes
productsAccess(method, token, body) ==
    CASE method = "GET" ->
            [code |-> IF body.id # None /\ body.id \notin KnownProducts THEN 404 ELSE 200,
             hung |-> FALSE]
      [] method \in {"POST", "PUT", "DELETE"} ->
            IF authenticateToken(token).status # 0
            THEN [code |-> authenticateToken(token).status, hung |-> TRUE]
            ELSE IF method = "POST" THEN [code |-> 0, hung |-> FALSE]
            ELSE IF body.id \notin KnownProducts THEN [code |-> 404, hung |-> FALSE]
            ELSE IF ~hasPermission(verifyToken(token), products[body.id].owner)
            THEN [code |-> 403, hung |-> FALSE]
            ELSE [code |-> 0, hung |-> FALSE]
      [] OTHER -> [code |-> 405, hung |-> FALSE]

\* handler of /products, up to the first await on the store after authentication; the
\* request in flight keeps req.user and req.body
productsHandler(r, method, clientIP, token, body) ==
    /\ Accept(r)
    /\ checkCall(clientIP)
    /\ UNCHANGED <<now, store, users, stats, products>>
    /\ IF tooManyRequests(clientIP)
       THEN Answer(r, "products", 429)
       ELSE LET access == productsAccess(method, token, body)
                new == [IdleReq EXCEPT !.kind = "products", !.target = method]
            IN  IF access.hung
                THEN /\ req' = [req EXCEPT ![r] = [new EXCEPT !.pc = "hung"]]
                     /\ Respond("products", access.code, None)
                ELSE IF access.code # 0
                THEN Answer(r, "products", access.code)
                ELSE /\ req' = [req EXCEPT ![r] =
                             [new EXCEPT !.pc = IF method = "POST" THEN "productCreate"
                                                ELSE "permitted",
                                         !.doc = [user |-> verifyToken(token).uid,
                                                  body |-> body]]]
                     /\ reply' = reply

\* POST /products: Product.create under the unique index on hash, and the answer
productCreate(r, id) ==
    /\ req[r].pc = "productCreate"
    /\ products[id] = NoProduct
    /\ LET body == req[r].doc.body
       IN  IF ~body.valid
           THEN /\ products' = products
                /\ Respond("products", 500, "ValidationError")
           ELSE IF body.hash # None /\ \E p \in ProductPool : products[p].hash = body.hash
           THEN /\ products' = products
                /\ Respond("products", 400, "E11000")
           ELSE /\ products' = [products EXCEPT ![id] =
                        [owner |-> req[r].doc.user, price |-> body.price,
                         hash |-> IF body.hash = None THEN id ELSE body.hash]]
                /\ Respond("products", 201, None)
    /\ req' = [req EXCEPT ![r] = IdleReq]
    /\ UNCHANGED <<now, store, issued, requests, checkLog, users, stats>>

\* PUT and DELETE /products after the permission check: findByIdAndUpdate with the
\* body, or findByIdAndDelete, and the answer
productWrite(r) ==
    /\ req[r].pc = "permitted"
    /\ LET body == req[r].doc.body
           old == products[body.id]
       IN  products' =
               IF old = NoProduct THEN products
               ELSE IF req[r].target = "DELETE" THEN [products EXCEPT ![body.id] = NoProduct]
               ELSE [products EXCEPT ![body.id] =
                        [old EXCEPT !.price = body.price,
                                    !.owner = IF body.owner = None THEN @ ELSE body.owner]]
    /\ Respond("products", 200, None)
    /\ req' = [req EXCEPT ![r] = IdleReq]
    /\ UNCHANGED <<now, store, issued, requests, checkLog, users, stats>>

Products ==
    \E r \in Slots, method \in Methods, clientIP \in ClientIPs, token \in ProductTokens :
        \E body \in ProductBodies(method) : productsHandler(r, method, clientIP, token, body)

ProductCreate == \E r \in Slots, id \in ProductPool : productCreate(r, id)

ProductWrite == \E r \in Slots : productWrite(r)

NextProducts == Products \/ ProductCreate \/ ProductWrite

SpecProducts == InitGate /\ [][NextProducts]_vars

NextGate == Payments \/ Insert \/ Apply \/ Save \/ RLTick

SpecGate == InitGate /\ [][NextGate]_vars

NextAuth == Auth \/ Login \/ RLTick

SpecAuth == InitAuth /\ [][NextAuth]_vars

-----------------------------------------------------------------------------
(* Properties of the payment lifecycle, checked under Spec and SpecUpdate *)

\* the step is one of request r's writes to the store in handleUpdatePayment
UpdateStep(r) ==
    /\ req[r].kind = "update"
    /\ req[r].pc \in {"found", "marked"}
    /\ req'[r] # req[r]

\* the step is request r leaving the switch of handleUpdatePayment with an accepted target
SwitchStep(r) ==
    /\ req[r].pc = "found"
    /\ req[r].target \in Accepted
    /\ req'[r] # req[r]

\* the step is a processRefund call
RefundStep == req' = req /\ issued' = issued + 1 /\ reply'.kind = "refund"

\* the transition graph of the payment status
Graph ==
    { <<"pending", "approved">>, <<"pending", "cancelled">>, <<"pending", "expired">>,
      <<"pending", "failed">>, <<"approved", "completed">>, <<"approved", "cancelled">>,
      <<"approved", "failed">>, <<"failed", "pending">>, <<"completed", "refunded">> }

\* C1: every change of a payment's status made by a status update follows the
\* transition graph, and an update to completed of a pending payment is answered 400
\* and leaves the store as it was.
C1_TransitionsFollowGraph ==
    [][\A r \in Slots :
          UpdateStep(r) =>
            /\ \A i \in DOMAIN store :
                  store'[i].status # store[i].status
                      => <<store[i].status, store'[i].status>> \in Graph
            /\ (req[r].target = "completed" /\ store[req[r].idx].status = "pending")
                  => (store' = store /\ reply'.code = 400)]_vars

\* C2: a status update that writes after the payment changed under it (it read the
\* payment before another writer committed) commits nothing and fails with
\* ConcurrentModificationError; a write that commits leaves in the store exactly the
\* document its writer computed, never a mix with another writer's fields.
C2_LosingWriterFails ==
    [][\A r \in Slots :
          SwitchStep(r) =>
            /\ store[req[r].idx] # req[r].orig
                  => (store' = store /\ reply'.error = "ConcurrentModificationError")
            /\ store' # store
                  => store'[req[r].idx] =
                        savedDoc(SwitchStatus(req[r].doc, req[r].target, req[r].tx, now),
                                 req[r].orig, now)]_vars

\* C3: a create whose identifier is already held by a stored payment inserts nothing
\* and its caller observes ConflictError.
C3_DuplicateIdentifierConflict ==
    [][\A r \in Slots :
          ( /\ req[r].pc = "creating"
            /\ req'[r] # req[r]
            /\ req[r].doc.identifier # None
            /\ \E i \in DOMAIN store : store[i].identifier = req[r].doc.identifier )
          => (store' = store /\ reply'.error = "ConflictError")]_vars

\* the fields the replay of a status update must leave as they were
ReplayView(doc) ==
    <<doc.status, doc.approvedAt, doc.completedAt, doc.cancelledAt, doc.failedAt,
      doc.retryCount, doc.lastError>>

\* C4: a status update to the status the payment already holds (with no other request
\* in flight and no write since it read the payment) leaves status, status timestamps,
\* retryCount and lastError of the stored payment as they were.
C4_ReplayIsNoOp ==
    [][\A r \in Slots :
          ( /\ SwitchStep(r)
            /\ \A r2 \in Slots \ {r} : Free(r2)
            /\ store[req[r].idx] = req[r].orig
            /\ store[req[r].idx].status = req[r].target )
          => ReplayView(store'[req[r].idx]) = ReplayView(store[req[r].idx])]_vars

\* C9: no payment becomes refunded from a status other than completed, and a
\* processRefund call changes no payment that is not completed (on such a payment it
\* fails and leaves status and refund record as they were).
C9_RefundOnlyFromCompleted ==
    [][/\ \A i \in DOMAIN store :
            (store'[i].status = "refunded" /\ store[i].status # "refunded")
                => store[i].status = "completed"
       /\ RefundStep =>
            \A i \in DOMAIN store :
                store[i].status # "completed" => store'[i] = store[i]]_vars

\* C10: no step of a status update changes the status of a payment that is cancelled,
\* expired or refunded.
C10_TerminalStable ==
    [][\A r \in Slots :
          UpdateStep(r) =>
            \A i \in DOMAIN store :
                store[i].status \in {"cancelled", "expired", "refunded"}
                    => store'[i].status = store[i].status]_vars

-----------------------------------------------------------------------------
(* Properties of the RateLimiter, checked under SpecRL *)

\* the calls of identity id, among the first n, that returned true with a timestamp in (lo, hi]
Granted(id, n, lo, hi) ==
    {k \in 1..n : /\ checkLog[k].id = id
                  /\ checkLog[k].ok
                  /\ checkLog[k].t > lo
                  /\ checkLog[k].t <= hi}

\* C6: for every identity and every instant t, at most maxRequests check calls with a
\* timestamp in (t - windowMs, t] returned true.
C6_WindowBudget ==
    \A id \in Identities, t \in 0..MaxTime :
        Cardinality(Granted(id, Len(checkLog), t - windowMs, t)) <= maxRequests

\* C7: a check is rejected only when the caller's own earlier calls granted within the
\* window have used up the budget: other identities' calls never count against it.
C7_NoCrossIdentityInterference ==
    \A k \in DOMAIN checkLog :
        ~checkLog[k].ok =>
            Cardinality(Granted(checkLog[k].id, k - 1,
                                checkLog[k].t - windowMs, checkLog[k].t)) >= maxRequests

\* identity id has been rejected by one of the calls made so far
WasRejected(id) == \E k \in DOMAIN checkLog : checkLog[k].id = id /\ ~checkLog[k].ok

\* C8: a rejected check records nothing; and once an identity has been rejected, a check
\* it makes when all of its recorded (granted) calls are at least windowMs old succeeds.
C8_RecoversAfterWindow ==
    [][(Len(checkLog') = Len(checkLog) + 1) =>
          LET e == checkLog'[Len(checkLog')]
          IN  /\ ~e.ok => requests' \subseteq requests
              /\ ( /\ WasRejected(e.id)
                   /\ Granted(e.id, Len(checkLog), 0 - 1, e.t) # {}
                   /\ Granted(e.id, Len(checkLog), e.t - windowMs, e.t) = {} )
                 => e.ok]_vars

-----------------------------------------------------------------------------
(* Properties of the handlers of /payments *)

\* C11: a create request with a valid credential and an amount that is missing or not
\* positive is answered 400, leaves the store as it was and leaves no request in flight.
C11_BadAmountRejected ==
    [][\A r \in Slots, amount \in {a \in Amounts : a <= 0},
          productId \in ProductIds, serviceType \in ServiceTypes :
            handleCreatePayment(r, "tok_u1", amount, productId, serviceType)
                => (reply'.code = 400 /\ store' = store /\ req'[r] = IdleReq)]_vars

\* a create request has just been answered 400, with a payment already in the store
C11_Witness ==
    /\ reply.kind = "create"
    /\ reply.code = 400
    /\ Len(store) = 1

\* C12: a create request without a credential is answered 401 and one whose credential
\* does not verify is answered 403; either way the store is as it was and the request
\* goes no further: no document is built and no identity is attached to it.
C12_BadCredentialRejected ==
    [][\A r \in Slots, token \in {None, "bad"}, amount \in Amounts,
          productId \in ProductIds, serviceType \in ServiceTypes :
            handleCreatePayment(r, token, amount, productId, serviceType)
                => /\ reply'.kind = "create"
                   /\ reply'.code = (IF token = None THEN 401 ELSE 403)
                   /\ store' = store
                   /\ req'[r].pc # "creating"
                   /\ req'[r].doc = NoDoc]_vars

\* a create request has just been refused for its credential, with a payment stored
C12_Witness ==
    /\ reply.kind = "create"
    /\ reply.code \in {401, 403}
    /\ \E r \in Slots : req[r].pc = "hung"
    /\ Len(store) = 1

-----------------------------------------------------------------------------
(* Properties of the admission gate, checked under SpecGate and SpecAuth *)

\* the step is a request in which check() was called and returned false
RejectedStep ==
    /\ Len(checkLog') = Len(checkLog) + 1
    /\ ~checkLog'[Len(checkLog')].ok

\* C14: on /payments the limiter is asked before anything is done for a request, POST
\* and PUT included: when it rejects the caller the request is answered 429, the store
\* is as it was and no request has started work; and a request starts work on the
\* store only in a step in which check() was called and returned true.
C14_RateLimitBeforeMutation ==
    [][ /\ RejectedStep
              => /\ reply'.code = 429
                 /\ store' = store
                 /\ \A r \in Slots : req'[r] \in {req[r], IdleReq}
        /\ \A r \in Slots :
              (req'[r].pc \in {"creating", "found"} /\ req[r].pc \notin {"creating", "found"})
                  => /\ Len(checkLog') = Len(checkLog) + 1
                     /\ checkLog'[Len(checkLog')].ok ]_vars

\* a request has just been answered 429 while a payment is stored
C14_Witness ==
    /\ reply.kind = "payments"
    /\ reply.code = 429
    /\ Len(store) > 0
    /\ \E n \in DOMAIN checkLog : ~checkLog[n].ok

\* C15: an OPTIONS request to /auth is answered 200 without the limiter being asked:
\* the limiter's map and the record of its calls are as they were.
C15_PreflightSkipsGate ==
    [][\A r \in Slots, clientIP \in ClientIPs :
          authHandler(r, "OPTIONS", clientIP, NoBody)
              => /\ reply'.code = 200
                 /\ requests' = requests
                 /\ checkLog' = checkLog]_vars

-----------------------------------------------------------------------------
(* Properties of status updates, checked under SpecUpdate *)

\* C16: the retryCount of a stored payment never decreases, and it changes only in a
\* step that takes the payment from a status other than failed into failed.
C16_RetryCountOnEntryToFailed ==
    [][\A i \in DOMAIN store :
          /\ store'[i].retryCount >= store[i].retryCount
          /\ store'[i].retryCount # store[i].retryCount
                => (store[i].status # "failed" /\ store'[i].status = "failed")]_vars

\* C17: approvedAt, completedAt, cancelledAt and failedAt of a stored payment, once
\* set, are never changed by a later step.
C17_StatusTimestampsSetOnce ==
    [][\A i \in DOMAIN store :
          \A f \in {"approvedAt", "completedAt", "cancelledAt", "failedAt"} :
              store[i][f] # NoTime => store'[i][f] = store[i][f]]_vars

\* C18: an update request that carries a payment id no stored payment has, and no
\* identifier, is answered 404 and goes no further: it does not pick up a payment
\* that has no identifier.
C18_UnknownKeyNotFound ==
    [][\A r \in Slots, paymentId \in PaymentIds, body \in UpdateBodies :
          ( /\ UpdateFind(r, paymentId, None, body[1], body[2])
            /\ \A i \in DOMAIN store : store[i].paymentId # paymentId )
              => /\ reply'.kind = "update"
                 /\ reply'.code = 404
                 /\ req'[r] = IdleReq
                 /\ store' = store]_vars

\* C19: an update request that carries only the identifier of a stored payment, and
\* no payment id, is not rejected: it goes on with that payment.
C19_IdentifierResolves ==
    [][\A r \in Slots, identifier \in IdentifierPool, body \in UpdateBodies :
          ( /\ UpdateFind(r, None, identifier, body[1], body[2])
            /\ \E i \in DOMAIN store : store[i].identifier = identifier )
              => /\ req'[r].pc = "found"
                 /\ store[req'[r].idx].identifier = identifier]_vars

-----------------------------------------------------------------------------
(* Property of retries, checked under SpecRetry *)

-----------------------------------------------------------------------------
(* Property of getStats, checked under SpecStats *)

RECURSIVE SumCount(_)
SumCount(rows) ==
    IF rows = {} THEN 0
    ELSE LET row == CHOOSE x \in rows : TRUE IN row.count + SumCount(rows \ {row})

RECURSIVE SumTotal(_)
SumTotal(rows) ==
    IF rows = {} THEN 0
    ELSE LET row == CHOOSE x \in rows : TRUE IN row.totalAmount + SumTotal(rows \ {row})

\* C21: what a getStats call over all payments returns is consistent and complete: the
\* counts by status add up to total, the amounts by status add up to totalAmount, and
\* no payment stored when the call began is left out.
C21_StatsConsistent ==
    (stats.pc = "done" /\ stats.uid = None)
        => /\ SumCount(stats.byStatus) = stats.total
           /\ SumTotal(stats.byStatus) = stats.totalAmount
           /\ SumCount(stats.byStatus) >= stats.atStart
           /\ stats.total >= stats.atStart

-----------------------------------------------------------------------------
(* Properties of the payment collection *)

\* C22: no request to /payments, whatever its method, removes a payment: every stored
\* payment is still stored after the step, under the payment id it had.
C22_PaymentsNeverDeleted ==
    [][ /\ Len(store') >= Len(store)
        /\ \A i \in DOMAIN store : store'[i].paymentId = store[i].paymentId ]_vars

\* a request with a method the switch has no case for (DELETE) has just been answered
\* 405 with two payments stored
C22_Witness ==
    /\ reply.kind = "payments"
    /\ reply.code = 405
    /\ Len(store) = 2

-----------------------------------------------------------------------------
(* Property of the handler of /products, checked under SpecProducts *)

C25_SparseUniqueness ==
    \A i, j \in DOMAIN store :
        i # j => /\ store[i].paymentId # store[j].paymentId
                 /\ (store[i].identifier # None /\ store[j].identifier # None)
                        => store[i].identifier # store[j].identifier

\* a second payment carrying a stored identifier has just been turned down, and of the
\* two payments stored one has no identifier
C25_Witness ==
    /\ Len(store) = 2
    /\ \E i \in DOMAIN store : store[i].identifier = None
    /\ \E i \in DOMAIN store : store[i].identifier # None
    /\ reply.error = "E11000"

-----------------------------------------------------------------------------
(* Properties of the effects of a status update, checked under SpecUpdate *)

\* C26: the step in which an update to failed writes the payment leaves it failed, with
\* failedAt the time of the step, lastError holding the message supplied, and
\* retryCount one more than it was in the store before the step; the handler's second
\* save() changes none of these.
C26_FailedCountsOnce ==
    [][\A r \in Slots :
          LET q == req[r] IN
          /\ (q.pc = "found" /\ q.target = "failed" /\ req'[r] # q)
                => /\ store'[q.idx].status = "failed"
                   /\ store'[q.idx].failedAt = now
                   /\ store'[q.idx].lastError.message = newError(q.tx).message
                   /\ store'[q.idx].lastError.timestamp = now
                   /\ store'[q.idx].retryCount = store[q.idx].retryCount + 1
          /\ (q.pc = "marked" /\ q.target = "failed" /\ req'[r] # q)
                => /\ store'[q.idx].retryCount = store[q.idx].retryCount
                   /\ store'[q.idx].failedAt = store[q.idx].failedAt
                   /\ store'[q.idx].lastError = store[q.idx].lastError ]_vars

\* the sub-record old with every field that transactionData tx supplies written over it
Merged(old, tx) ==
    [transactionId |-> IF tx.transactionId # None THEN tx.transactionId
                       ELSE old.transactionId,
     blockHash |-> IF tx.blockHash # None THEN tx.blockHash ELSE old.blockHash]

\* C27: the step in which an update to completed writes the payment leaves it completed
\* with completedAt the time of the step; when the request carries transactionData,
\* piNetworkData holds every field supplied and keeps the others, whichever fields
\* were supplied; when it carries none, piNetworkData is as it was.
C27_CompletedMergesTransaction ==
    [][\A r \in Slots :
          LET q == req[r] IN
          (q.pc = "found" /\ q.target = "completed" /\ req'[r] # q)
              => /\ store'[q.idx].status = "completed"
                 /\ store'[q.idx].completedAt = now
                 /\ store'[q.idx].piNetworkData =
                        IF q.tx.present THEN Merged(store[q.idx].piNetworkData, q.tx)
                        ELSE store[q.idx].piNetworkData ]_vars

\* C28: no step changes the payment id, the owner snapshot (uid, username, wallet
\* address), the amount or the currency of a stored payment: status updates,
\* markAsCompleted, markAsFailed and processRefund leave them as they were at creation.
C28_CreationFieldsImmutable ==
    [][\A i \in DOMAIN store :
          \A f \in {"paymentId", "uid", "username", "walletAddress", "amount", "currency"} :
              store'[i][f] = store[i][f]]_vars

\* a payment has been refunded in part after an update marked it failed
C28_Witness ==
    \E i \in DOMAIN store :
        /\ store[i].status = "refunded"
        /\ store[i].refund.amount = 4
        /\ store[i].amount = 10
        /\ store[i].failedAt # NoTime

\* C29: no payment, stored or about to be, has both a product and a service; a create
\* request that names a product that resolves and a service type builds a payment with
\* the product alone; and no step changes the product or the service of a stored
\* payment.
C29_OneSubject ==
    [][ /\ \A i \in DOMAIN store' : store'[i].product = None \/ store'[i].service = None
        /\ \A r \in Slots :
              req'[r].pc = "creating"
                  => (req'[r].doc.product = None \/ req'[r].doc.service = None)
        /\ \A r \in Slots, productId \in KnownProducts, serviceType \in ServiceTypes \ {None} :
              handleCreatePayment(r, "tok_u1", 10, productId, serviceType)
                  => /\ req'[r].pc = "creating"
                     /\ req'[r].doc.product = productId
                     /\ req'[r].doc.service = None
        /\ \A i \in DOMAIN store :
              /\ store'[i].product = store[i].product
              /\ store'[i].service = store[i].service ]_vars

\* a payment for a product and a payment for a service are stored, and one of them
\* has been updated since
C29_Witness ==
    /\ \E i \in DOMAIN store : store[i].product = "prod_1" /\ store[i].service = None
    /\ \E i \in DOMAIN store : store[i].product = None /\ store[i].service = "api_access"
    /\ \E i \in DOMAIN store : store[i].status # "pending"

\* C30: right after any call of check at time t, by any identity, the limiter's map
\* holds no entry with a timestamp earlier than t - windowMs, whichever identity
\* recorded it.
C30_EvictionReclaimsAll ==
    [][ Len(checkLog') = Len(checkLog) + 1
            => \A e \in requests' : ~(e.timestamp < now - windowMs) ]_vars

\* an identity was admitted, stopped calling, and the call of another identity after
\* its window has passed removed its entry
C30_Witness ==
    /\ Len(checkLog) > 0
    /\ LET last == checkLog[Len(checkLog)]
       IN  /\ now = last.t
           /\ \E k \in 1..Len(checkLog) :
                 /\ checkLog[k].ok
                 /\ checkLog[k].id # last.id
                 /\ checkLog[k].t < last.t - windowMs
                 /\ \A j \in (k + 1)..Len(checkLog) : checkLog[j].id # checkLog[k].id
                 /\ \A e \in requests : e.key # Key(checkLog[k].id, checkLog[k].t)

-----------------------------------------------------------------------------
(* Properties of the failure paths of a status update *)

\* the step in which the status update of slot r answers with a failure
FailureAnswer(r) ==
    /\ req[r].kind = "update"
    /\ req[r].pc \in {"found", "marked"}
    /\ req'[r].pc = "idle"
    /\ reply'.kind = "update"
    /\ reply'.code >= 400

\* C31: a status update that answers with a failure (4xx or 500) has written nothing:
\* the answering step leaves the store as it was, and what the request has saved so
\* far is the payment as it found it, on the paths with two saves as well.
C31_NoPartialCommit ==
    [][\A r \in Slots :
          FailureAnswer(r)
              => /\ store' = store
                 /\ req[r].pc = "marked" => req[r].doc = req[r].before]_vars

\* C32: a status update whose target is none of approved, completed, cancelled, failed
\* is answered 400 and leaves the store, the payment it looked up included, as it was.
C32_InvalidTargetRejected ==
    [][\A r \in Slots :
          ( /\ req[r].kind = "update"
            /\ req[r].pc = "found"
            /\ req'[r] # req[r]
            /\ req[r].target \notin {"approved", "completed", "cancelled", "failed"} )
          => /\ reply' = [kind |-> "update", code |-> 400, error |-> "Invalid status update"]
             /\ store' = store
             /\ req'[r] = IdleReq]_vars

\* an update to refunded, or with no status, of a payment in the store was answered
\* 400, and the payment is as it was created
C32_Witness ==
    /\ reply = [kind |-> "update", code |-> 400, error |-> "Invalid status update"]
    /\ store # <<>>
    /\ \A i \in DOMAIN store : store[i].status = "pending" /\ store[i].updatedAt = store[i].createdAt

\* C33: in every reachable state every payment has retryCount <= maxRetries: updates
\* to failed, however many, do not take retryCount above maxRetries.
C33_RetryCountBounded ==
    \A i \in DOMAIN store : store[i].retryCount <= store[i].maxRetries

\* C34: an invocation of the create-payment handler that has answered 401 or 403 (it
\* waits on the callback of authenticateToken) eventually completes.
C34_CreateTerminates ==
    \A r \in Slots :
        (req[r].kind = "create" /\ req[r].pc = "hung") ~> (req[r].pc = "idle")

=============================================================================
